---- MODULE Spec2Model ----
(***************************************************************************)
(* Sales Insights Dashboard (src/app/app.py).                              *)
(*                                                                         *)
(* The Streamlit script is one top-to-bottom run per user interaction.     *)
(* The model follows the script section by section: LOAD DATA, SIDEBAR     *)
(* FILTERS, APPLY FILTERS, KPI CALCULATIONS, TOP PRODUCTS, CHARTS and      *)
(* EXPORT SECTION, each one action; an exception stops the run where it is *)
(* raised.  The st.cache_data store outlives the runs.                     *)
(*                                                                         *)
(* Encodings.  A cell of the "Order Date" column of the CSV is the number  *)
(* YYYYMMDD; IsDate tells the texts the date parser accepts.  Sales are     *)
(* whole currency units.  A float result is a record: a quotient num/den,  *)
(* or NaN, or Inf.  Strings are ordered by KeyOrder (their rank in         *)
(* lexicographic order).                                                   *)
(***************************************************************************)
EXTENDS Integers, Sequences, FiniteSets, TLC

VARIABLES
    source,          \* the content of the file at DATA_PATH
    cache,           \* st.cache_data's entry for load_data(DATA_PATH)
    df,              \* the base table of the current run
    widgets,         \* the sidebar widgets' values (Streamlit session state)
    df_f,            \* the filtered view
    total_revenue, total_orders, avg_order_value,
    monthly_sales, mom_growth,
    top_products, region_sales,
    excel_data,      \* the sheets written by to_excel_bytes
    pc,              \* the section of the script the run is at
    err              \* the exception that ended the run, if any

vars == <<source, cache, df, widgets, df_f, total_revenue, total_orders,
          avg_order_value, monthly_sales, mom_growth, top_products,
          region_sales, excel_data, pc, err>>

----------------------------------------------------------------------------
(* Bounds of the model *)

MaxRows == 3
MaxProducts == 6

----------------------------------------------------------------------------
(* Values *)

Range(s) == {s[i] : i \in DOMAIN s}

\* Every string of the model's universe, in lexicographic order.
KeyOrder ==
    <<"2024-01", "2024-02", "2024-03", "Cat1", "Cat2", "East",
      "O1", "O2", "O3", "O4", "West",
      "WidgetA", "WidgetB", "WidgetC", "WidgetD", "WidgetE", "WidgetF",
      "WidgetG", "WidgetH">>

Rank(s) == CHOOSE i \in DOMAIN KeyOrder : KeyOrder[i] = s

\* sorted(...) of a set of strings
RECURSIVE SortedKeys(_)
SortedKeys(S) ==
    IF S = {} THEN <<>>
    ELSE LET m == CHOOSE x \in S : \A y \in S : Rank(x) <= Rank(y)
         IN  <<m>> \o SortedKeys(S \ {m})

\* float values
Num(n, d) == [kind |-> "num", num |-> n, den |-> d]
NaN == [kind |-> "nan", num |-> 0, den |-> 1]
Inf == [kind |-> "inf", num |-> 0, den |-> 1]

\* numpy's true division of two numbers: no exception on a zero divisor
TrueDiv(a, b) ==
    IF b # 0 THEN Num(a, b)
    ELSE IF a = 0 THEN NaN ELSE Inf

\* the text of a date cell is a calendar date
IsDate(x) ==
    /\ (x \div 100) % 100 \in 1..12
    /\ x % 100 \in 1..31

\* Timestamp.to_period("M") then astype(str)
MonthStr(d) ==
    LET ym == d \div 100
    IN  CASE ym = 202401 -> "2024-01"
          [] ym = 202402 -> "2024-02"
          [] ym = 202403 -> "2024-03"

----------------------------------------------------------------------------
(* Tables *)

ColumnOrder ==
    <<"Order ID", "Order Date", "Product", "Category", "Region", "Sales",
      "order_month">>

Required == {"Order ID", "Order Date", "Product", "Category", "Region", "Sales"}

Table(c, r, p) == [cols |-> c, rows |-> r, parsed |-> p]

NoTable == Table(<<>>, <<>>, FALSE)

Has(t, c) == c \in Range(t.cols)

Row(o, d, p, c, r, s) ==
    [c0 \in Range(ColumnOrder) |->
        CASE c0 = "Order ID"    -> o
          [] c0 = "Order Date"  -> d
          [] c0 = "Product"     -> p
          [] c0 = "Category"    -> c
          [] c0 = "Region"      -> r
          [] c0 = "Sales"       -> s
          [] c0 = "order_month" -> IF IsDate(d) THEN MonthStr(d) ELSE "2024-01"]

\* the columns of a file that holds the set C of columns, in file order
ColsOf(C) == SelectSeq(ColumnOrder, LAMBDA c : c \in C)

\* a record cut to the columns C
Project(r, C) == [c \in C |-> r[c]]

\* a file: its header and its records
File(C, rows) ==
    [cols |-> ColsOf(C),
     rows |-> [i \in DOMAIN rows |-> Project(rows[i], C)]]

RECURSIVE SumSales(_)
SumSales(rows) ==
    IF rows = <<>> THEN 0
    ELSE Head(rows)["Sales"] + SumSales(Tail(rows))

----------------------------------------------------------------------------
(* LOAD DATA: load_data, lines 18-25 *)

\* pd.read_csv raises when the column named in parse_dates is not in the file
ReadCsvRaises(f) == ~("Order Date" \in Range(f.cols))

\* pd.read_csv(path, parse_dates=["Order Date"]): the column becomes a
\* datetime column when every cell parses, and is otherwise returned
\* unaltered, as the texts of the file.
ReadCsv(f) ==
    Table(f.cols, f.rows,
          \A i \in DOMAIN f.rows : IsDate(f.rows[i]["Order Date"]))

\* line 22 raises (the .dt accessor) when the column was left unparsed
LoadRaises(f) ==
    \/ ReadCsvRaises(f)
    \/ /\ ~Has(ReadCsv(f), "order_month")
       /\ ~ReadCsv(f).parsed

LoadError(f) ==
    IF ReadCsvRaises(f) THEN "ValueError@20" ELSE "AttributeError@22"

WithMonth(r) ==
    [c \in DOMAIN r \cup {"order_month"} |->
        IF c = "order_month" THEN MonthStr(r["Order Date"]) ELSE r[c]]

\* the body of load_data, when it does not raise
LoadResult(f) ==
    LET t == ReadCsv(f)
    IN  IF Has(t, "order_month") THEN t
        ELSE Table(t.cols \o <<"order_month">>,
                   [i \in DOMAIN t.rows |-> WithMonth(t.rows[i])],
                   t.parsed)

----------------------------------------------------------------------------
(* Pandas operations the script uses *)

Unique(rows, col) == {rows[i][col] : i \in DOMAIN rows}

RowsOf(rows, col, k) == SelectSeq(rows, LAMBDA r : r[col] = k)

\* the roll-up with each key's first row in place of the sum of its rows
GroupByFirst(rows, col) ==
    LET keys == SortedKeys(Unique(rows, col))
    IN  [i \in DOMAIN keys |->
            [key |-> keys[i], Sales |-> Head(RowsOf(rows, col, keys[i]))["Sales"]]]

\* rows.groupby(col)["Sales"].sum(): one entry per distinct key, in
\* ascending key order, holding the sum of the key's rows
GroupBySum(rows, col) ==
    LET keys == SortedKeys(Unique(rows, col))
    IN  [i \in DOMAIN keys |->
            [key |-> keys[i], Sales |-> SumSales(RowsOf(rows, col, keys[i]))]]

\* Series.nunique()
NUnique(rows, col) == Cardinality(Unique(rows, col))

\* the ascending arrangements: sort_values() without ascending=False
RECURSIVE AscOrders(_)
AscOrders(E) ==
    IF E = {} THEN {<<>>}
    ELSE UNION {{<<e>> \o t : t \in AscOrders(E \ {e})} :
                e \in {x \in E : \A y \in E : y.Sales >= x.Sales}}

SortValuesAsc(series) == AscOrders(Range(series))

\* Series.sort_values(ascending=False) with the default kind="quicksort",
\* which is not a stable sort: every descending arrangement of the entries
\* is a possible result, entries of equal value in any order.
RECURSIVE DescOrders(_)
DescOrders(E) ==
    IF E = {} THEN {<<>>}
    ELSE UNION {{<<e>> \o t : t \in DescOrders(E \ {e})} :
                e \in {x \in E : \A y \in E : y.Sales <= x.Sales}}

SortValuesDesc(series) == DescOrders(Range(series))

TopN == 5

\* Series.head(n)
HeadN(s, n) == SubSeq(s, 1, IF Len(s) < n THEN Len(s) ELSE n)

\* x * k for a float x
Times(x, k) == IF x.kind = "num" THEN Num(x.num * k, x.den) ELSE x

----------------------------------------------------------------------------
(* APPLY FILTERS: lines 73-82 *)

\* the mask with the end bound excluded
MaskExclusiveEnd(r, start, end, regions, categories) ==
    /\ r["Order Date"] >= start
    /\ r["Order Date"] < end
    /\ r["Region"] \in regions
    /\ r["Category"] \in categories

\* the mask with an empty selection read as no restriction
MaskEmptyIsAll(r, start, end, regions, categories) ==
    /\ r["Order Date"] >= start
    /\ r["Order Date"] <= end
    /\ (regions = {} \/ r["Region"] \in regions)
    /\ (categories = {} \/ r["Category"] \in categories)

\* one row of the mask
Mask(r, start, end, regions, categories) ==
    /\ r["Order Date"] >= start
    /\ r["Order Date"] <= end
    /\ r["Region"] \in regions
    /\ r["Category"] \in categories

\* df.loc[mask].copy()
Filtered(t, w) ==
    Table(t.cols,
          SelectSeq(t.rows, LAMBDA r : Mask(r, w.date_range[1], w.date_range[2],
                                            w.regions, w.categories)),
          t.parsed)

----------------------------------------------------------------------------
(* KPI CALCULATIONS: lines 86-97 *)

\* line 88 without its guard
AvgOrderValueUnguarded(revenue, orders) == TrueDiv(revenue, orders)

AvgOrderValue(revenue, orders) ==
    IF orders > 0 THEN TrueDiv(revenue, orders) ELSE Num(0, 1)

\* line 93 without the test of the divisor
MomGrowthUnguarded(ms) ==
    IF Len(ms) >= 2
    THEN Times(TrueDiv(ms[Len(ms)].Sales - ms[Len(ms) - 1].Sales,
                       ms[Len(ms) - 1].Sales), 100)
    ELSE NaN

MomGrowth(ms) ==
    IF Len(ms) >= 2 /\ ms[Len(ms) - 1].Sales # 0
    THEN Times(TrueDiv(ms[Len(ms)].Sales - ms[Len(ms) - 1].Sales,
                       ms[Len(ms) - 1].Sales), 100)
    ELSE NaN

----------------------------------------------------------------------------
(* EXCEL EXPORT FUNCTION: to_excel_bytes, lines 29-43 *)

Sheet(n, h, r) == [name |-> n, header |-> h, rows |-> r]

\* the export with the product sheet cut to the top of the list
to_excel_bytes_head(t) ==
    << Sheet("raw_data", t.cols, t.rows),
       Sheet("product_sales", <<"Product", "Sales">>,
             HeadN(GroupBySum(t.rows, "Product"), TopN)),
       Sheet("category_sales", <<"Category", "Sales">>,
             GroupBySum(t.rows, "Category")),
       Sheet("region_sales", <<"Region", "Sales">>,
             GroupBySum(t.rows, "Region")) >>

to_excel_bytes(t) ==
    << Sheet("raw_data", t.cols, t.rows),
       Sheet("product_sales", <<"Product", "Sales">>,
             GroupBySum(t.rows, "Product")),
       Sheet("category_sales", <<"Category", "Sales">>,
             GroupBySum(t.rows, "Category")),
       Sheet("region_sales", <<"Region", "Sales">>,
             GroupBySum(t.rows, "Region")) >>

----------------------------------------------------------------------------
(* The files the model loads *)

\* the records the general files are made of
RowPool ==
    { Row("O1", 20240105, "WidgetA", "Cat1", "East", 100),
      Row("O1", 20240105, "WidgetB", "Cat1", "East", 50),
      Row("O2", 20240210, "WidgetA", "Cat1", "West", 200),
      Row("O3", 20240105, "WidgetC", "Cat2", "West", 0),
      Row("O4", 20240301, "WidgetB", "Cat2", "East", 50) }

Seqs(S, n) == UNION {[1..k -> S] : k \in 0..n}

\* files with every required column and parseable dates, the month column
\* left to load_data
GeneralFiles == {File(Required, rows) : rows \in Seqs(RowPool, MaxRows)}

ProductNames ==
    <<"WidgetA", "WidgetB", "WidgetC", "WidgetD", "WidgetE", "WidgetF",
      "WidgetG", "WidgetH">>

\* files with one record per product, for MaxProducts products, and one
\* more record of the first product in some
ProductFiles ==
    { File(Required,
           [i \in 1..MaxProducts |->
               Row("O1", 20240105, ProductNames[i], "Cat1", "East", s[i])]
           \o extra) :
      s \in [1..MaxProducts -> {1, 2}],
      extra \in {<<>>, <<Row("O2", 20240105, ProductNames[1], "Cat1", "East", 1)>>} }

SampleRows ==
    << Row("O1", 20240105, "WidgetA", "Cat1", "East", 100),
       Row("O2", 20240210, "WidgetA", "Cat1", "West", 200) >>

\* a record whose date text is no calendar date
BadDateRow == Row("O3", 20241345, "WidgetC", "Cat2", "West", 50)

\* files that lack a required column or hold an unparseable date, and a
\* well-formed file that brings its own month column
OddFiles ==
    {File(Required \ {c}, SampleRows) : c \in Required}
    \cup {File(Required, SampleRows \o <<BadDateRow>>),
          File(Range(ColumnOrder), SampleRows \o <<BadDateRow>>),
          File(Range(ColumnOrder), SampleRows)}

----------------------------------------------------------------------------
(* The run *)

NoFloat == [kind |-> "none", num |-> 0, den |-> 1]

NoWidgets ==
    [live |-> FALSE, date_range |-> <<>>, regions |-> {}, categories |-> {}]

\* the script's names before the run binds them
Unbound ==
    /\ df' = NoTable
    /\ df_f' = NoTable
    /\ total_revenue' = 0
    /\ total_orders' = 0
    /\ avg_order_value' = NoFloat
    /\ monthly_sales' = <<>>
    /\ mom_growth' = NoFloat
    /\ top_products' = <<>>
    /\ region_sales' = <<>>
    /\ excel_data' = <<>>

InitWith(files) ==
    /\ source \in files
    /\ cache = NoTable
    /\ widgets = NoWidgets
    /\ df = NoTable
    /\ df_f = NoTable
    /\ total_revenue = 0
    /\ total_orders = 0
    /\ avg_order_value = NoFloat
    /\ monthly_sales = <<>>
    /\ mom_growth = NoFloat
    /\ top_products = <<>>
    /\ region_sales = <<>>
    /\ excel_data = <<>>
    /\ pc = "load"
    /\ err = "none"

Init == InitWith(GeneralFiles \cup OddFiles \cup ProductFiles)

Raise(e) ==
    /\ pc' = "error"
    /\ err' = e

\* lines 18-25: df = load_data(DATA_PATH) under @st.cache_data.  The entry
\* is keyed by the function and its argument, the path; the file's content
\* is no part of the key, and an exception stores nothing.
LoadData ==
    /\ pc = "load"
    /\ IF cache # NoTable
       THEN /\ df' = cache
            /\ pc' = "sidebar"
            /\ UNCHANGED <<cache, err>>
       ELSE IF LoadRaises(source)
       THEN /\ Raise(LoadError(source))
            /\ UNCHANGED <<cache, df>>
       ELSE /\ cache' = LoadResult(source)
            /\ df' = LoadResult(source)
            /\ pc' = "sidebar"
            /\ UNCHANGED err
    /\ UNCHANGED <<source, widgets, df_f, total_revenue, total_orders,
                   avg_order_value, monthly_sales, mom_growth, top_products,
                   region_sales, excel_data>>

MinOf(S) == CHOOSE x \in S : \A y \in S : x <= y
MaxOf(S) == CHOOSE x \in S : \A y \in S : x >= y

\* lines 49-50
min_date(t) == MinOf(Unique(t.rows, "Order Date"))
max_date(t) == MaxOf(Unique(t.rows, "Order Date"))

\* the widgets' values on the first run: lines 54, 62, 68
Defaults(t) ==
    [live |-> TRUE,
     date_range |-> <<min_date(t), max_date(t)>>,
     regions |-> Unique(t.rows, "Region"),
     categories |-> Unique(t.rows, "Category")]

\* lines 47-69: the first exception of the section, if any.  Over a table
\* with no rows min() is NaT, which has no date(); over an unparsed column
\* min() is a text, which has none either.
SidebarError(t) ==
    IF t.rows = <<>> THEN "ValueError@49"
    ELSE IF ~t.parsed THEN "AttributeError@49"
    ELSE IF ~Has(t, "Region") THEN "KeyError@61"
    ELSE IF ~Has(t, "Category") THEN "KeyError@67"
    ELSE "none"

Sidebar ==
    /\ pc = "sidebar"
    /\ IF SidebarError(df) # "none"
       THEN /\ Raise(SidebarError(df))
            /\ UNCHANGED widgets
       ELSE /\ widgets' = IF widgets.live THEN widgets ELSE Defaults(df)
            /\ pc' = "filter"
            /\ UNCHANGED err
    /\ UNCHANGED <<source, cache, df, df_f, total_revenue, total_orders,
                   avg_order_value, monthly_sales, mom_growth, top_products,
                   region_sales, excel_data>>

\* the filter applied to the shared table itself, with no copy
ApplyFiltersInPlace ==
    /\ pc = "filter"
    /\ IF Len(widgets.date_range) < 2
       THEN /\ Raise("IndexError@73")
            /\ UNCHANGED <<df_f, df, cache>>
       ELSE /\ df_f' = Filtered(df, widgets)
            /\ df' = Filtered(df, widgets)
            /\ cache' = Filtered(df, widgets)
            /\ pc' = "kpi"
            /\ UNCHANGED err
    /\ UNCHANGED <<source, widgets, total_revenue, total_orders,
                   avg_order_value, monthly_sales, mom_growth, top_products,
                   region_sales, excel_data>>

\* lines 73-82
ApplyFilters ==
    /\ pc = "filter"
    /\ IF Len(widgets.date_range) < 2
       THEN /\ Raise("IndexError@73")
            /\ UNCHANGED df_f
       ELSE /\ df_f' = Filtered(df, widgets)
            /\ pc' = "kpi"
            /\ UNCHANGED err
    /\ UNCHANGED <<source, cache, df, widgets, total_revenue, total_orders,
                   avg_order_value, monthly_sales, mom_growth, top_products,
                   region_sales, excel_data>>

\* lines 86-97
KpiCalculations ==
    /\ pc = "kpi"
    /\ IF ~Has(df_f, "Sales")
       THEN /\ Raise("KeyError@86")
            /\ UNCHANGED <<total_revenue, total_orders, avg_order_value,
                           monthly_sales, mom_growth>>
       ELSE IF ~Has(df_f, "Order ID")
       THEN /\ total_revenue' = SumSales(df_f.rows)
            /\ Raise("KeyError@87")
            /\ UNCHANGED <<total_orders, avg_order_value, monthly_sales,
                           mom_growth>>
       ELSE /\ total_revenue' = SumSales(df_f.rows)
            /\ total_orders' = NUnique(df_f.rows, "Order ID")
            /\ avg_order_value' = AvgOrderValue(total_revenue', total_orders')
            /\ monthly_sales' = GroupBySum(df_f.rows, "order_month")
            /\ mom_growth' = MomGrowth(monthly_sales')
            /\ pc' = "top"
            /\ UNCHANGED err
    /\ UNCHANGED <<source, cache, df, widgets, df_f, top_products,
                   region_sales, excel_data>>

\* lines 118-124
TopProducts ==
    /\ pc = "top"
    /\ IF ~Has(df_f, "Product")
       THEN /\ Raise("KeyError@119")
            /\ UNCHANGED top_products
       ELSE /\ \E sorted \in SortValuesDesc(GroupBySum(df_f.rows, "Product")) :
                  top_products' = HeadN(sorted, TopN)
            /\ pc' = "charts"
            /\ UNCHANGED err
    /\ UNCHANGED <<source, cache, df, widgets, df_f, total_revenue,
                   total_orders, avg_order_value, monthly_sales, mom_growth,
                   region_sales, excel_data>>

\* lines 135-140
Charts ==
    /\ pc = "charts"
    /\ region_sales' = GroupBySum(df_f.rows, "Region")
    /\ pc' = "export"
    /\ UNCHANGED <<source, cache, df, widgets, df_f, total_revenue,
                   total_orders, avg_order_value, monthly_sales, mom_growth,
                   top_products, excel_data, err>>

\* lines 144-154
Export ==
    /\ pc = "export"
    /\ excel_data' = to_excel_bytes(df_f)
    /\ pc' = "idle"
    /\ UNCHANGED <<source, cache, df, widgets, df_f, total_revenue,
                   total_orders, avg_order_value, monthly_sales, mom_growth,
                   top_products, region_sales, err>>

\* the values the date picker can return: a tuple of up to two dates between
\* its min_value and max_value (lines 52-57); fewer than two while a range
\* is being picked
DateUniverse == {20240105, 20240210, 20240301}

DateRanges(t) ==
    LET D == {d \in DateUniverse : min_date(t) <= d /\ d <= max_date(t)}
    IN  {<<>>} \cup {<<a>> : a \in D} \cup {<<a, b>> : a \in D, b \in D}

\* the user changes one widget; Streamlit runs the script again
Interact ==
    /\ pc \in {"idle", "error"}
    /\ widgets.live
    /\ \/ \E dr \in DateRanges(cache) :
             widgets' = [widgets EXCEPT !.date_range = dr]
       \/ \E rs \in SUBSET Unique(cache.rows, "Region") :
             widgets' = [widgets EXCEPT !.regions = rs]
       \/ \E cs \in SUBSET Unique(cache.rows, "Category") :
             widgets' = [widgets EXCEPT !.categories = cs]
    /\ widgets' # widgets
    /\ Unbound
    /\ pc' = "load"
    /\ err' = "none"
    /\ UNCHANGED <<source, cache>>

\* a run with the widgets as they are (the download button, a reload)
Rerun ==
    /\ pc \in {"idle", "error"}
    /\ Unbound
    /\ pc' = "load"
    /\ err' = "none"
    /\ UNCHANGED <<source, cache, widgets>>

Next ==
    \/ LoadData
    \/ Sidebar
    \/ ApplyFilters
    \/ KpiCalculations
    \/ TopProducts
    \/ Charts
    \/ Export
    \/ Interact
    \/ Rerun

Spec == Init /\ [][Next]_vars

----------------------------------------------------------------------------
(* The file changing under the running app *)

CacheFiles ==
    { File(Required, SampleRows),
      File(Required, SubSeq(SampleRows, 1, 1)),
      File(Required \ {"Order Date"}, SampleRows) }

\* the file at DATA_PATH is rewritten
ChangeSource ==
    /\ source' \in CacheFiles \ {source}
    /\ UNCHANGED <<cache, df, widgets, df_f, total_revenue, total_orders,
                   avg_order_value, monthly_sales, mom_growth, top_products,
                   region_sales, excel_data, pc, err>>

InitCache == InitWith(CacheFiles)

NextCache ==
    \/ Next
    \/ ChangeSource

SpecCache == InitCache /\ [][NextCache]_vars

----------------------------------------------------------------------------
(* What the claims speak of *)

\* the run has built the filtered view
ViewBuilt ==
    \/ pc \in {"kpi", "top", "charts", "export", "idle"}
    \/ pc = "error" /\ err \in {"KeyError@86", "KeyError@87", "KeyError@119"}

KpisDone == pc \in {"top", "charts", "export", "idle"}
TopDone == pc \in {"charts", "export", "idle"}
ChartsDone == pc \in {"export", "idle"}

\* the rows of t that the filter state w admits
Admitted(t, w) ==
    {i \in DOMAIN t.rows :
        /\ w.date_range[1] <= t.rows[i]["Order Date"]
        /\ t.rows[i]["Order Date"] <= w.date_range[2]
        /\ t.rows[i]["Region"] \in w.regions
        /\ t.rows[i]["Category"] \in w.categories}

\* the k-th smallest member of a set of indices
Kth(I, k) == CHOOSE i \in I : Cardinality({j \in I : j < i}) = k - 1

\* v holds exactly the admitted rows of t, in t's order
ExactView(t, w, v) ==
    /\ v.cols = t.cols
    /\ Len(v.rows) = Cardinality(Admitted(t, w))
    /\ \A k \in DOMAIN v.rows : v.rows[k] = t.rows[Kth(Admitted(t, w), k)]

\* the sum of Sales over the rows of v at the indices I
RECURSIVE SalesAt(_, _)
SalesAt(v, I) ==
    IF I = {} THEN 0
    ELSE LET i == CHOOSE x \in I : TRUE
         IN  v.rows[i]["Sales"] + SalesAt(v, I \ {i})

\* the sum of Sales over the rows of v whose column col holds k
SalesOfKey(v, col, k) ==
    SalesAt(v, {i \in DOMAIN v.rows : v.rows[i][col] = k})

\* the sum of a series' values
RECURSIVE SeriesTotal(_, _)
SeriesTotal(s, n) ==
    IF n = 0 THEN 0 ELSE s[n].Sales + SeriesTotal(s, n - 1)

\* s is the roll-up of v by col: one entry per key of v, each with its sum
IsRollUp(s, v, col) ==
    /\ {s[i].key : i \in DOMAIN s} = {v.rows[i][col] : i \in DOMAIN v.rows}
    /\ \A i, j \in DOMAIN s : s[i].key = s[j].key => i = j
    /\ \A i \in DOMAIN s : s[i].Sales = SalesOfKey(v, col, s[i].key)

Degenerate(w) ==
    \/ w.regions = {}
    \/ w.categories = {}
    \/ w.date_range[1] > w.date_range[2]

----------------------------------------------------------------------------
(* C1: the filtered view holds exactly the rows of the base table whose    *)
(* date lies in [start, end], both bounds included, whose region is in the *)
(* allowed regions and whose category is in the allowed categories, in the *)
(* base table's order.                                                     *)
C1_FilterExact == ViewBuilt => ExactView(df, widgets, df_f)

\* a view that keeps a row dated on the end bound and on the start bound,
\* and drops another row
C1_Witness ==
    /\ pc = "idle"
    /\ Len(df_f.rows) >= 2
    /\ Len(df_f.rows) < Len(df.rows)
    /\ \E i \in DOMAIN df_f.rows : df_f.rows[i]["Order Date"] = widgets.date_range[2]
    /\ \E i \in DOMAIN df_f.rows : df_f.rows[i]["Order Date"] = widgets.date_range[1]
    /\ widgets.date_range[1] < widgets.date_range[2]

(* C2: with no region allowed, or no category allowed, or start after end, *)
(* the run raises nothing and the filtered view has no rows.               *)
C2_DegenerateEmpty ==
    (/\ pc \notin {"load", "sidebar", "filter"}
     /\ widgets.live
     /\ Len(widgets.date_range) = 2
     /\ Degenerate(widgets)
     /\ Required \subseteq Range(df.cols))
    => (err = "none" /\ df_f.rows = <<>> /\ df_f.cols = df.cols)

\* start after end over a table with rows, regions and categories allowed
C2_Witness ==
    /\ pc = "idle"
    /\ df.rows # <<>>
    /\ widgets.date_range[1] > widgets.date_range[2]
    /\ widgets.regions # {}
    /\ widgets.categories # {}
    /\ df_f.rows = <<>>

(* C3: the values of the by-Region roll-up add up to the total revenue,    *)
(* which is the sum of Sales over every row of the view.                   *)
C3_RollupReconciles ==
    ChartsDone =>
        /\ SeriesTotal(region_sales, Len(region_sales)) = total_revenue
        /\ total_revenue = SalesAt(df_f, DOMAIN df_f.rows)
        /\ IsRollUp(region_sales, df_f, "Region")

\* two regions, one of them with several rows
C3_Witness ==
    /\ pc = "idle"
    /\ Len(region_sales) = 2
    /\ Len(df_f.rows) > 2
    /\ total_revenue > 0

(* C4: total orders is the number of distinct order identifiers of the     *)
(* view; the average order value is revenue / orders when orders > 0 and   *)
(* exactly 0 otherwise, and is never NaN or infinite.                      *)
C4_AvgOrderValue ==
    KpisDone =>
        /\ total_orders = Cardinality({df_f.rows[i]["Order ID"] : i \in DOMAIN df_f.rows})
        /\ avg_order_value.kind = "num"
        /\ avg_order_value.den # 0
        /\ total_orders > 0 =>
              avg_order_value.num * total_orders = total_revenue * avg_order_value.den
        /\ total_orders = 0 => avg_order_value.num = 0

\* the empty view: no orders, average 0
C4_Witness ==
    /\ pc = "idle"
    /\ df.rows # <<>>
    /\ total_orders = 0
    /\ avg_order_value = Num(0, 1)

\* the months of the view
Months(v) == {v.rows[i]["order_month"] : i \in DOMAIN v.rows}
LastMonth(v) == CHOOSE m \in Months(v) : \A n \in Months(v) : Rank(n) <= Rank(m)
PrevMonth(v) ==
    CHOOSE m \in Months(v) \ {LastMonth(v)} :
        \A n \in Months(v) \ {LastMonth(v)} : Rank(n) <= Rank(m)

(* C5: the monthly series holds the summed Sales of each month of the view *)
(* in ascending month order; growth is absent with fewer than two months   *)
(* or when the month before the last sums to 0, and is otherwise           *)
(* (last - prev) / prev * 100.                                             *)
C5_MomGrowth ==
    KpisDone =>
        /\ IsRollUp(monthly_sales, df_f, "order_month")
        /\ \A i, j \in DOMAIN monthly_sales :
              i < j => Rank(monthly_sales[i].key) < Rank(monthly_sales[j].key)
        /\ IF Cardinality(Months(df_f)) < 2
           THEN mom_growth = NaN
           ELSE LET last == SalesOfKey(df_f, "order_month", LastMonth(df_f))
                    prev == SalesOfKey(df_f, "order_month", PrevMonth(df_f))
                IN  IF prev = 0
                    THEN mom_growth = NaN
                    ELSE /\ mom_growth.kind = "num"
                         /\ mom_growth.den # 0
                         /\ mom_growth.num * prev
                               = (last - prev) * 100 * mom_growth.den

\* two months, the earlier summing to 0, the later not: growth is absent
C5_Witness ==
    /\ pc = "idle"
    /\ Len(monthly_sales) >= 2
    /\ monthly_sales[Len(monthly_sales) - 1].Sales = 0
    /\ monthly_sales[Len(monthly_sales)].Sales > 0
    /\ mom_growth = NaN

\* a file load_data is meant to refuse
Malformed(f) ==
    \/ ~(Required \subseteq Range(f.cols))
    \/ /\ "Order Date" \in Range(f.cols)
       /\ \E i \in DOMAIN f.rows : ~IsDate(f.rows[i]["Order Date"])

(* C6: a load made after the file's content changed reads the file again   *)
(* and returns the table of the new content (and fails if the new content  *)
(* cannot be loaded).                                                      *)
C6_LoadIsFresh ==
    [][(pc = "load" /\ pc' = "sidebar")
          => (~LoadRaises(source) /\ df' = LoadResult(source))]_vars

(* C7: when a required column is missing from the file or a date does not  *)
(* parse, the load fails: the run ends in load_data, no table is produced  *)
(* and no later section runs.                                              *)
C7_LoadFails ==
    (Malformed(source) /\ pc # "load")
    => (/\ pc = "error"
        /\ err \in {"ValueError@20", "AttributeError@22"}
        /\ df = NoTable
        /\ cache = NoTable)

\* the products of the view
Products(v) == {v.rows[i]["Product"] : i \in DOMAIN v.rows}

(* C8, as amended: Top Products holds min(5, number of products) entries,  *)
(* each a product of the view with the sum of its Sales, in descending     *)
(* order of the sums, and no product left out has a larger sum than one    *)
(* included.  The order among equal sums is not determined.                *)
C8_TopProducts ==
    TopDone =>
        /\ Len(top_products)
              = IF Cardinality(Products(df_f)) < TopN
                THEN Cardinality(Products(df_f)) ELSE TopN
        /\ \A i, j \in DOMAIN top_products :
              top_products[i].key = top_products[j].key => i = j
        /\ \A i \in DOMAIN top_products :
              /\ top_products[i].key \in Products(df_f)
              /\ top_products[i].Sales
                    = SalesOfKey(df_f, "Product", top_products[i].key)
        /\ \A i, j \in DOMAIN top_products :
              i < j => top_products[i].Sales >= top_products[j].Sales
        /\ \A p \in Products(df_f) \ {top_products[i].key : i \in DOMAIN top_products} :
              \A i \in DOMAIN top_products :
                  SalesOfKey(df_f, "Product", p) <= top_products[i].Sales

\* entries of equal sum keep the order the grouping produced them in
\* (ascending product name)
TiesInGroupingOrder ==
    \A i, j \in DOMAIN top_products :
        (i < j /\ top_products[i].Sales = top_products[j].Sales)
            => Rank(top_products[i].key) < Rank(top_products[j].key)

(* C8, as claimed: the above, and products with equal sums appear in the   *)
(* order in which the grouping produced them (the sort is stable).         *)
C8_TopProductsStable ==
    TopDone => (C8_TopProducts /\ TiesInGroupingOrder)

\* more than five products, an equal pair among the five listed, and
\* several rows of one product
C8_Witness ==
    /\ pc = "idle"
    /\ Cardinality(Products(df_f)) > TopN
    /\ Len(df_f.rows) > Cardinality(Products(df_f))
    /\ \E i, j \in DOMAIN top_products :
          i < j /\ top_products[i].Sales = top_products[j].Sales
    /\ top_products[1].Sales > top_products[Len(top_products)].Sales

(* C9: the export holds four sheets, raw_data, product_sales,              *)
(* category_sales and region_sales in this order: raw_data is the view,    *)
(* row for row with all its columns; each roll-up sheet has one row per    *)
(* key of the view with the key's summed Sales, product_sales for every    *)
(* product; for the empty view each sheet has its header and no rows.      *)
C9_Export ==
    pc = "idle" =>
        /\ Len(excel_data) = 4
        /\ [i \in 1..4 |-> excel_data[i].name]
              = <<"raw_data", "product_sales", "category_sales", "region_sales">>
        /\ excel_data[1].header = df_f.cols
        /\ Required \subseteq Range(excel_data[1].header)
        /\ excel_data[1].rows = df_f.rows
        /\ excel_data[2].header = <<"Product", "Sales">>
        /\ excel_data[3].header = <<"Category", "Sales">>
        /\ excel_data[4].header = <<"Region", "Sales">>
        /\ IsRollUp(excel_data[2].rows, df_f, "Product")
        /\ IsRollUp(excel_data[3].rows, df_f, "Category")
        /\ IsRollUp(excel_data[4].rows, df_f, "Region")
        /\ df_f.rows = <<>> => \A i \in 1..4 : excel_data[i].rows = <<>>

\* an export with more products than Top Products lists
C9_Witness ==
    /\ pc = "idle"
    /\ Len(excel_data) = 4
    /\ Len(excel_data[2].rows) > TopN
    /\ Len(excel_data[1].rows) > Len(excel_data[2].rows)

(* C10: once loaded, the base table never changes: every run works on the  *)
(* table as loaded, no section writes to it, and the view of a run is the  *)
(* filter of that table by the run's filter state, whatever was applied    *)
(* before.                                                                 *)
C10_BaseTableFrozen ==
    /\ [](df = NoTable \/ df = cache)
    /\ [][cache # NoTable => cache' = cache]_vars
    /\ [][df # NoTable => (df' = df \/ (df' = NoTable /\ pc' = "load"))]_vars
    /\ [](ViewBuilt => ExactView(cache, widgets, df_f))

\* a run after the widgets were changed, with a view smaller than the table
C10_Witness ==
    /\ pc = "idle"
    /\ widgets # Defaults(cache)
    /\ df = cache
    /\ df_f.rows # <<>>
    /\ Len(df_f.rows) < Len(df.rows)

====
